---- MODULE Spec2Model ----
(***************************************************************************)
(* The reroll combiners of diceodel (rerolling.mjs) and the comparison     *)
(* module they rest on (comparison.mjs, lettersAndDigits.mjs, integer.mjs).*)
(*                                                                         *)
(* Encoding of JavaScript values:                                          *)
(*  - a rolled value is a hex digit: the numbers 0..9 stand for            *)
(*    themselves, the strings "A".."F" are written 10..15; TypeOf tells    *)
(*    the two kinds apart;                                                 *)
(*  - positions and roll indexes are 0-based as in the code; At(s, i)      *)
(*    reads the i-th element of a sequence;                                *)
(*  - `undefined` and NaN in a numeric slot are the values Undefined, NaN; *)
(*  - a number handed to checkInteger is written as twice its value, so    *)
(*    that 1.5 (written 3) is a number that is no integer.                 *)
(***************************************************************************)
EXTENDS Integers, Sequences, FiniteSets

VARIABLES
    pc,       \* where the caller stands: idle, ready, reducing, returned, ...
    policy,   \* the class of the constructed combiner, or the singleton called
    count,    \* its #count
    compare,  \* its comparator: [fn |-> the caller's function, swap |-> operands exchanged]
    isArray,  \* whether the argument of combine is an array
    roll,     \* the roll handed to combine
    result,   \* the accumulator of roll.reduce: the sorted indexes
    index,    \* the position roll.reduce visits next
    output,   \* what combine returned: the array, or the one value in a sequence of its own
    outKind,  \* "array" or "value" once combine has returned, "none" before
    error,    \* the error the constructor or combine threw
    cmpCall,  \* a direct call of a comparison function: [fn, a, b, r]
    probes,   \* history: the pairs of roll indexes the searches of this combine compared
    calls,    \* history: the number of comparator calls of this combine
    prev,     \* history: the outcome of the call of combine before this one
    die,      \* the fields of the constructed SimpleDie, and the argument it was made of
    search    \* a direct call of indirectBinarySearch: its arguments and its value

vars == <<pc, policy, count, compare, isArray, roll, result, index, output, outKind,
          error, cmpCall, probes, calls, prev, die, search>>

-----------------------------------------------------------------------------
(* Bounds of the model *)

MaxLen == 4      \* rolls of every length up to MaxLen are enumerated
MaxCount == 3    \* counts up to MaxCount are handed to the constructors
MaxDigit == 1    \* the numeric digits 0..MaxDigit are enumerated in rolls
MaxSource == 3   \* sources of every length up to MaxSource are handed to the search

-----------------------------------------------------------------------------
(* JavaScript values *)

Undefined == -1000
NaN == -2000
LetterA == 10
LetterF == 15
LastDigit == 9

Digits == 0..LastDigit
Letters == LetterA..LetterF
HexDigits == Digits \cup Letters

TypeOf(v) == IF v >= LetterA THEN "string" ELSE "number"

At(s, i) == s[i + 1]

Min(a, b) == IF a < b THEN a ELSE b
Max(a, b) == IF a > b THEN a ELSE b

Sign(n) == IF n < 0 THEN -1 ELSE IF n > 0 THEN 1 ELSE 0

\* x < 0 and x > 0 of JavaScript: false when x is undefined
Lt0(x) == x # Undefined /\ x # NaN /\ x < 0
Gt0(x) == x # Undefined /\ x # NaN /\ x > 0

\* a number written as twice its value
Num(n) == 2 * n

-----------------------------------------------------------------------------
(* integer.mjs: checkInteger and its wrappers.  The constraint of the      *)
(* options is read into a local and never applied.                         *)

IsSafeInteger(twice) == twice % 2 = 0

checkIntegerThrows(arg) ==
    \/ arg.type # "number"
    \/ ~IsSafeInteger(arg.twice)

checkInteger(arg) == arg.twice \div 2

checkNegativeInteger(arg) == checkInteger(arg)

checkPositiveInteger(arg) == checkInteger(arg)

NumberArg(n) == [type |-> "number", twice |-> Num(n)]

-----------------------------------------------------------------------------
(* comparison.mjs *)

\* The body compares the identifiers a and b; the parameters are named
\* compared and comparee, and the module binds no a or b: evaluating
\* `a === b` throws ReferenceError, which the catch turns into undefined.
DefaultComparison(compared, comparee) ==
    LET bodyThrowsReferenceError == TRUE
        a == compared
        b == comparee
    IN  IF bodyThrowsReferenceError THEN Undefined
        ELSE IF a = b THEN 0
        ELSE IF TypeOf(a) = TypeOf(b) /\ a < b THEN -1
        ELSE IF TypeOf(a) = TypeOf(b) /\ b < a THEN 1
        ELSE Undefined

\* lettersAndDigits.mjs
HexDigitComparison(a, b) ==
    IF TypeOf(a) = TypeOf(b) THEN DefaultComparison(a, b)
    ELSE IF TypeOf(a) = "number" THEN checkNegativeInteger(NumberArg(-1))
    ELSE checkPositiveInteger(NumberArg(1))

\* Comparison functions a caller hands to the constructors (Compare<TYPE>):
\*   Numeric       (a, b) => value(a) - value(b), a total order
\*   Bucket        orders by value div 2: distinct values that compare equal
\*   SameKindOnly  natural order within a kind, undefined across kinds
\*   NeverEqual    (a, b) => a < b ? -1 : 1, which is not antisymmetric
CallerComparison(fn, a, b) ==
    CASE fn = "Numeric" -> Sign(a - b)
      [] fn = "Bucket" -> Sign((a \div 2) - (b \div 2))
      [] fn = "SameKindOnly" -> IF TypeOf(a) = TypeOf(b) THEN Sign(a - b) ELSE Undefined
      [] fn = "NeverEqual" -> IF a < b THEN -1 ELSE 1

CallerFns == {"Numeric", "Bucket", "SameKindOnly", "NeverEqual"}
CompareFns == {"DefaultComparison", "HexDigitComparison"} \cup CallerFns

\* a call of the function value fn
Call(fn, a, b) ==
    CASE fn = "DefaultComparison" -> DefaultComparison(a, b)
      [] fn = "HexDigitComparison" -> HexDigitComparison(a, b)
      [] OTHER -> CallerComparison(fn, a, b)

\* a call of this.compare
Apply(cmp, a, b) == IF cmp.swap THEN Call(cmp.fn, b, a) ELSE Call(cmp.fn, a, b)

\* (mutant) the loop without its test for an undefined comparison
RECURSIVE BinarySearchLoop_NoUndefinedTest(_, _, _, _, _, _, _)
BinarySearchLoop_NoUndefinedTest(source, sortedIndexes, seeked, start, end, cmp, probed) ==
    IF start < end
    THEN LET cursor == (start + end) \div 2
             c == Apply(cmp, At(source, At(sortedIndexes, cursor)), seeked)
             seen == Append(probed, cursor)
         IN  IF c = 0 THEN [value |-> cursor, probed |-> seen]
             ELSE IF Lt0(c)
                  THEN BinarySearchLoop_NoUndefinedTest(source, sortedIndexes, seeked,
                                                        start, cursor, cmp, seen)
                  ELSE BinarySearchLoop_NoUndefinedTest(source, sortedIndexes, seeked,
                                                        cursor + 1, end, cmp, seen)
    ELSE [value |-> -1 - start, probed |-> probed]

\* The while loop of indirectBinarySearch.  The value is what the function
\* returns; probed lists the cursors whose element was compared with seeked.
RECURSIVE BinarySearchLoop(_, _, _, _, _, _, _)
BinarySearchLoop(source, sortedIndexes, seeked, start, end, cmp, probed) ==
    IF start < end
    THEN LET cursor == (start + end) \div 2
             c == Apply(cmp, At(source, At(sortedIndexes, cursor)), seeked)
             seen == Append(probed, cursor)
         IN  IF c = Undefined THEN [value |-> Undefined, probed |-> seen]
             ELSE IF c = 0 THEN [value |-> cursor, probed |-> seen]
             ELSE IF c < 0
                  THEN BinarySearchLoop(source, sortedIndexes, seeked, start, cursor, cmp, seen)
                  ELSE BinarySearchLoop(source, sortedIndexes, seeked, cursor + 1, end, cmp, seen)
    ELSE [value |-> -1 - start, probed |-> probed]

RangeError == -3000

indirectBinarySearch(source, sortedIndexes, seeked, start, end, cmp) ==
    IF start < 0 THEN RangeError
    ELSE IF end > Len(sortedIndexes) THEN RangeError
    ELSE BinarySearchLoop(source, sortedIndexes, seeked, start, end, cmp, <<>>).value

\* the cursors the search compares with seeked, in the order of the loop
ProbedCursors(source, sortedIndexes, seeked, cmp) ==
    BinarySearchLoop(source, sortedIndexes, seeked, 0, Len(sortedIndexes), cmp, <<>>).probed

\* the flag returnFirstPosition is "true", "false" or "unset"
Truthy(flag) == flag = "true"

\* (mutant) the walk to the first of the equal run left out
WalkToFirst_Stay(source, sortedIndexes, compared, insertionIndex, cmp) == insertionIndex

RECURSIVE WalkToFirst(_, _, _, _, _)
WalkToFirst(source, sortedIndexes, compared, insertionIndex, cmp) ==
    IF /\ insertionIndex > 0
       /\ Apply(cmp, At(source, At(sortedIndexes, insertionIndex - 1)), compared) = 0
    THEN WalkToFirst(source, sortedIndexes, compared, insertionIndex - 1, cmp)
    ELSE insertionIndex

RECURSIVE WalkToLast(_, _, _, _, _)
WalkToLast(source, sortedIndexes, compared, insertionIndex, cmp) ==
    IF /\ insertionIndex < Len(sortedIndexes) - 1
       /\ Apply(cmp, At(source, At(sortedIndexes, insertionIndex + 1)), compared) = 0
    THEN WalkToLast(source, sortedIndexes, compared, insertionIndex + 1, cmp)
    ELSE insertionIndex

\* options = {start, end, compare, returnFirstPosition}
indirectBinarySearchWithDuplicates(source, sortedIndexes, seeked, options) ==
    LET cmp == options.compare
        baseResult == indirectBinarySearch(source, sortedIndexes, seeked,
                                           options.start, options.end, cmp)
        first == Truthy(options.returnFirstPosition)
        insertionIndex == IF baseResult < 0 THEN -1 - baseResult ELSE baseResult
        compared == At(source, At(sortedIndexes, insertionIndex))
        toFirst == IF baseResult < 0
                   THEN (IF Lt0(Apply(cmp, seeked, compared)) THEN first ELSE ~first)
                   ELSE first
        walked == IF insertionIndex < Len(sortedIndexes)
                  THEN IF toFirst
                       THEN WalkToFirst(source, sortedIndexes, compared, insertionIndex, cmp)
                       ELSE WalkToLast(source, sortedIndexes, compared, insertionIndex, cmp)
                  ELSE insertionIndex
    IN  IF baseResult = RangeError THEN RangeError
        ELSE IF baseResult = Undefined \/ baseResult = NaN THEN Undefined
        ELSE IF baseResult < 0 THEN -1 - walked ELSE walked

-----------------------------------------------------------------------------
(* Array.prototype.splice and slice *)

SubSeq0(s, from, to) == SubSeq(s, from + 1, to)   \* the elements from..to-1

\* arr.splice(start, deleteCount, ...items): the array afterwards
Splice(arr, start, deleteCount, items) ==
    LET len == Len(arr)
        relStart == IF start < 0 THEN Max(len + start, 0) ELSE Min(start, len)
        dc == Min(Max(deleteCount, 0), len - relStart)
    IN  SubSeq0(arr, 0, relStart) \o items \o SubSeq0(arr, relStart + dc, len)

\* ToIntegerOrInfinity of a slice argument: NaN and undefined become 0
ToIntegerOrInfinity(n) == IF n = NaN \/ n = Undefined THEN 0 ELSE n

\* arr.slice(start)
Slice(arr, start) ==
    LET len == Len(arr)
        rel == ToIntegerOrInfinity(start)
        from == IF rel < 0 THEN Max(len + rel, 0) ELSE Min(rel, len)
    IN  SubSeq0(arr, from, len)

\* a - b and Math.max(a, b) of numbers
Minus(a, b) == IF a \in {Undefined, NaN} \/ b \in {Undefined, NaN} THEN NaN ELSE a - b
MathMax(a, b) == IF a = NaN \/ b = NaN THEN NaN ELSE Max(a, b)

-----------------------------------------------------------------------------
(* rerolling.mjs *)

\* get count() { this.#count; } of KeepLastCombiner: the body returns nothing
KeepLastCount(privateCount) == Undefined

\* get count() { return this.#count; } of KeepBestCombiner, KeepWorstCombiner
KeepCount(privateCount) == privateCount

KeepLastCombine(r, privateCount) ==
    Slice(r, MathMax(0, Minus(Len(r), KeepLastCount(privateCount))))

\* (mutant) KeepBestCombiner keeping the caller's operand order
KeepBestCompare_NoSwap(fn) == [fn |-> fn, swap |-> FALSE]

\* this.compare of the two sorting combiners
KeepBestCompare(fn) == [fn |-> fn, swap |-> TRUE]
KeepWorstCompare(fn) == [fn |-> fn, swap |-> FALSE]

SearchOptions(sortedIndexes, cmp) ==
    [start |-> 0, end |-> Len(sortedIndexes), compare |-> cmp, returnFirstPosition |-> "unset"]

\* (mutant) the current index inserted at the match instead of behind it
InsertionIndex_AtMatch(resultIndex) ==
    IF resultIndex < 0 THEN -1 - resultIndex ELSE resultIndex

\* the position the callback of roll.reduce inserts the current index at
InsertionIndex(resultIndex) ==
    IF resultIndex < 0 THEN -1 - resultIndex ELSE resultIndex + 1

\* (mutant) the excess dropped from one position too far
Truncate_OneTooFar(res, cnt) ==
    IF Len(res) > cnt THEN Splice(res, cnt + 1, Len(res) - cnt, <<>>) ELSE res

\* (mutant) the excess dropped only when the count is no negative number
Truncate_Guarded(res, cnt) ==
    IF cnt >= 0 /\ Len(res) > cnt THEN Splice(res, cnt, Len(res) - cnt, <<>>) ELSE res

\* the accumulator with the excess dropped
Truncate(res, cnt) ==
    IF Len(res) > cnt THEN Splice(res, cnt, Len(res) - cnt, <<>>) ELSE res

\* the accumulator after the callback of roll.reduce, when it does not throw
Reduced(res, current, i, rolledValues, cmp, cnt) ==
    LET resultIndex == indirectBinarySearchWithDuplicates(rolledValues, res, current,
                                                          SearchOptions(res, cmp))
    IN  Truncate(Splice(res, InsertionIndex(resultIndex), 0, <<i>>), cnt)

\* the comparisons of one step: [elem |-> the roll index of the probed entry,
\* seek |-> the roll index of the current value]
ProbesOfStep(rolledValues, res, i, cmp) ==
    LET cursors == ProbedCursors(rolledValues, res, At(rolledValues, i), cmp)
    IN  {[elem |-> At(res, cursors[k]), seek |-> i] : k \in 1..Len(cursors)}

\* .map(index => roll[index])
MapToValues(res, r) == [p \in 1..Len(res) |-> At(r, res[p])]

\* arr[i] of an array: undefined outside 0..length-1
ArrayGet(arr, i) == IF i \in 0..(Len(arr) - 1) THEN arr[i + 1] ELSE Undefined

\* (mutant) roll.reduce started with the accumulator of the call before
InitialAccumulator_Kept(previous) == previous

\* the initial value [] handed to roll.reduce, whatever a call before has left
InitialAccumulator(previous) == <<>>

\* the number of calls of options.compare one indirectBinarySearchWithDuplicates makes
CompareCalls(source, sortedIndexes, seeked, options) ==
    LET cmp == options.compare
        loop == BinarySearchLoop(source, sortedIndexes, seeked,
                                 options.start, options.end, cmp, <<>>)
        baseResult == loop.value
        first == Truthy(options.returnFirstPosition)
        insertionIndex == IF baseResult < 0 THEN -1 - baseResult ELSE baseResult
        compared == At(source, At(sortedIndexes, insertionIndex))
        toFirst == IF baseResult < 0
                   THEN (IF Lt0(Apply(cmp, seeked, compared)) THEN first ELSE ~first)
                   ELSE first
        walked == IF toFirst
                  THEN WalkToFirst(source, sortedIndexes, compared, insertionIndex, cmp)
                  ELSE WalkToLast(source, sortedIndexes, compared, insertionIndex, cmp)
        walkCalls == IF toFirst
                     THEN (insertionIndex - walked) + (IF walked > 0 THEN 1 ELSE 0)
                     ELSE (walked - insertionIndex)
                              + (IF walked < Len(sortedIndexes) - 1 THEN 1 ELSE 0)
    IN  IF options.start < 0 \/ options.end > Len(sortedIndexes) THEN 0
        ELSE IF baseResult = Undefined \/ baseResult = NaN THEN Len(loop.probed)
        ELSE IF insertionIndex < Len(sortedIndexes)
             THEN Len(loop.probed) + (IF baseResult < 0 THEN 1 ELSE 0) + walkCalls
             ELSE Len(loop.probed)

\* roll.reduce(callback, []).map(...) of the sorting combiners as one function
\* of the array roll: what combine returns, or that the callback threw
RECURSIVE KeepReduce(_, _, _, _, _)
KeepReduce(r, cmp, cnt, res, i) ==
    IF i = Len(r) THEN [pc |-> "returned", value |-> MapToValues(res, r)]
    ELSE IF indirectBinarySearchWithDuplicates(r, res, At(r, i), SearchOptions(res, cmp))
                = Undefined
         THEN [pc |-> "thrown", value |-> <<>>]
         ELSE KeepReduce(r, cmp, cnt, Reduced(res, At(r, i), i, r, cmp, cnt), i + 1)

KeepCombine(r, cmp, cnt) == KeepReduce(r, cmp, cnt, InitialAccumulator(<<>>), 0)

\* (mutant) the singletons accepting an empty array
KeepNewAccepts_NoLength(isArr, r) == isArr

\* Array.isArray(roll) && roll.length > 0 of KeepNew and the singletons
KeepNewAccepts(isArr, r) == isArr /\ Len(r) > 0

\* return roll[roll.length - 1] of KeepNew
KeepNewCombine(r) == ArrayGet(r, Len(r) - 1)

\* (mutant) the singletons reading the element [1]
Unwrap_Second(kept) == ArrayGet(kept, 1)

\* the [0] the singletons apply to what their combiner returns
Unwrap(kept) == ArrayGet(kept, 0)

\* the count of KeepSingleBestCombiner and KeepSingleWorstCombiner
SingleCount == 1

-----------------------------------------------------------------------------
(* die.mjs *)

\* the side count of the default parameter { sideCount: 6 }
DefaultSideCount == 6

\* SimpleDie.createSides(first, last, increment) with increment adding mod and
\* the default test cursor <= last: the values pushed after made
RECURSIVE createSides(_, _, _, _)
createSides(cursor, last, mod, made) ==
    IF cursor <= last THEN createSides(cursor + mod, last, mod, Append(made, cursor))
    ELSE made

\* SimpleDie.createDieSides(sideCount) of a safe integer
createDieSides(sideCount) ==
    LET mod == IF sideCount < 0 THEN -1 ELSE 1
    IN  createSides(mod, sideCount, mod, <<>>)

\* A constructor argument: kind is "undefined", "array", "object" or "other";
\* an object may carry sideCount (Undefined when absent) and sides (hasSides).
DieParam(kind, sideCount, hasSides, sides) ==
    [kind |-> kind, sideCount |-> sideCount, hasSides |-> hasSides, sides |-> sides]

\* the default value of the constructor's parameter
DefaultDieParams == DieParam("object", DefaultSideCount, FALSE, <<>>)

NoDie == [sideCount |-> Undefined, sides |-> <<>>]

\* _init(params): the fields it sets, or that it throws
SimpleDieInit(params) ==
    IF params.kind = "array"
    THEN [thrown |-> FALSE, die |-> [sideCount |-> Len(params.sides), sides |-> params.sides]]
    ELSE IF params.kind = "object" /\ params.sideCount # Undefined /\ params.hasSides
    THEN [thrown |-> FALSE, die |-> [sideCount |-> params.sideCount, sides |-> params.sides]]
    ELSE IF params.kind = "object" /\ params.hasSides
    THEN [thrown |-> FALSE, die |-> [sideCount |-> Len(params.sides), sides |-> params.sides]]
    ELSE [thrown |-> TRUE, die |-> NoDie]

\* constructor(params = { sideCount: 6 })
SimpleDieConstructor(arg) ==
    SimpleDieInit(IF arg.kind = "undefined" THEN DefaultDieParams ELSE arg)

-----------------------------------------------------------------------------
(* Inputs *)

RECURSIVE SeqsUpTo(_, _)
SeqsUpTo(S, n) ==
    IF n = 0 THEN {<<>>}
    ELSE LET shorter == SeqsUpTo(S, n - 1)
         IN  shorter \cup {Append(s, v) : s \in {t \in shorter : Len(t) = n - 1}, v \in S}

RollValues == (0..MaxDigit) \cup {LetterA, LetterA + 1}

\* the rolls of the documented scenarios
ScenarioRolls == {<<3, 5, 2, 1, 0>>, <<3, 5, LetterF, 2, LetterA, 0>>, <<1, 2, 3, 4, 5, 6>>}

Rolls == SeqsUpTo(RollValues, MaxLen) \cup ScenarioRolls

\* the count argument of a constructor: -1, -0.5, 0, 0.5, ..., MaxCount, a string, or none
CountArgs ==
    {[type |-> "number", twice |-> h] : h \in (-4)..(2 * MaxCount)}
        \cup {[type |-> "string", twice |-> 0], [type |-> "undefined", twice |-> 0]}

\* what combine is handed: an array of rolled values, or something that is no array
Arguments ==
    {[isArray |-> TRUE, roll |-> r] : r \in Rolls} \cup {[isArray |-> FALSE, roll |-> <<>>]}

\* the arguments of new SimpleDie(...)
DieSideCounts == (0..MaxCount) \cup {DefaultSideCount}
DieArguments ==
    {DieParam("undefined", Undefined, FALSE, <<>>), DieParam("other", Undefined, FALSE, <<>>)}
        \cup {DieParam("array", Undefined, TRUE, createDieSides(n)) : n \in DieSideCounts}
        \cup {DieParam("object", n, FALSE, <<>>) : n \in DieSideCounts \cup {Undefined}}
        \cup {DieParam("object", n, TRUE, createDieSides(m)) :
                  n \in DieSideCounts \cup {Undefined}, m \in DieSideCounts}

\* the index sets a caller of the search hands over: indexes of source, each at most once
RECURSIVE IndexSeqs(_, _)
IndexSeqs(n, k) ==
    IF k = 0 THEN {<<>>}
    ELSE LET shorter == IndexSeqs(n, k - 1)
         IN  shorter \cup {Append(s, i) : s \in {t \in shorter : Len(t) = k - 1},
                                          i \in 0..(n - 1)}

IndexSets(source) ==
    {s \in IndexSeqs(Len(source), Len(source)) :
         \A p \in 1..Len(s), q \in 1..Len(s) : p # q => s[p] # s[q]}

\* the index sets of the sources of each length, computed once per length
IndexSetsOfLen == [n \in 0..MaxSource |-> IndexSets([k \in 1..n |-> 0])]

SearchSources == SeqsUpTo(RollValues, MaxSource)

NoCompare == [fn |-> "none", swap |-> FALSE]
NoCall == [fn |-> "none", a |-> 0, b |-> 0, r |-> 0]
NoOutcome == [pc |-> "none", output |-> <<>>, outKind |-> "none", error |-> "none"]
NoDieCall == [arg |-> DieParam("none", Undefined, FALSE, <<>>), die |-> NoDie]
NoSearch == [source |-> <<>>, sortedIndexes |-> <<>>, seeked |-> 0, fn |-> "none", value |-> 0]

-----------------------------------------------------------------------------
(* The state machine *)

Init ==
    /\ pc = "idle"
    /\ policy = "none"
    /\ count = Undefined
    /\ compare = NoCompare
    /\ isArray = TRUE
    /\ roll = <<>>
    /\ result = <<>>
    /\ index = 0
    /\ output = <<>>
    /\ outKind = "none"
    /\ error = "none"
    /\ cmpCall = NoCall
    /\ probes = {}
    /\ calls = 0
    /\ prev = NoOutcome
    /\ die = NoDieCall
    /\ search = NoSearch

\* a direct call of a comparison function
CallCompare ==
    /\ pc = "idle"
    /\ \E fn \in CompareFns, a \in HexDigits, b \in HexDigits :
           cmpCall' = [fn |-> fn, a |-> a, b |-> b, r |-> Call(fn, a, b)]
    /\ pc' = "compared"
    /\ UNCHANGED <<policy, count, compare, isArray, roll, result, index, output, outKind,
                   error, probes, calls, prev, die, search>>

\* a direct call of indirectBinarySearch(source, sortedIndexes, seeked, 0, length, compare)
CallSearch ==
    /\ pc = "idle"
    /\ \E source \in SearchSources, seeked \in RollValues, fn \in CompareFns :
           \E sortedIndexes \in IndexSetsOfLen[Len(source)] :
               search' = [source |-> source, sortedIndexes |-> sortedIndexes,
                          seeked |-> seeked, fn |-> fn,
                          value |-> indirectBinarySearch(source, sortedIndexes, seeked, 0,
                                                         Len(sortedIndexes),
                                                         [fn |-> fn, swap |-> FALSE])]
    /\ pc' = "searched"
    /\ UNCHANGED <<policy, count, compare, isArray, roll, result, index, output, outKind,
                   error, cmpCall, probes, calls, prev, die>>

\* the values of options.returnFirstPosition a caller hands over
Flags == {"true", "false", "unset"}

\* the values and sources handed to the search that allows duplicates
DuplicateValues == (0..MaxDigit) \cup {LetterA}
DuplicateSources == SeqsUpTo(DuplicateValues, MaxSource)

\* a direct call of indirectBinarySearchWithDuplicates(source, sortedIndexes, seeked,
\* {compare, returnFirstPosition}); base is what its call of indirectBinarySearch returned
CallSearchWithDuplicates ==
    /\ pc = "idle"
    /\ \E source \in DuplicateSources, seeked \in DuplicateValues, fn \in CompareFns,
          flag \in Flags :
           \E sortedIndexes \in IndexSetsOfLen[Len(source)] :
               LET cmp == [fn |-> fn, swap |-> FALSE]
                   options == [start |-> 0, end |-> Len(sortedIndexes), compare |-> cmp,
                               returnFirstPosition |-> flag]
               IN  search' = [source |-> source, sortedIndexes |-> sortedIndexes,
                              seeked |-> seeked, fn |-> fn, flag |-> flag,
                              base |-> indirectBinarySearch(source, sortedIndexes, seeked,
                                                            0, Len(sortedIndexes), cmp),
                              value |-> indirectBinarySearchWithDuplicates(
                                            source, sortedIndexes, seeked, options)]
    /\ pc' = "resolved"
    /\ UNCHANGED <<policy, count, compare, isArray, roll, result, index, output, outKind,
                   error, cmpCall, probes, calls, prev, die>>

\* new SimpleDie(params)
ConstructSimpleDie ==
    /\ pc = "idle"
    /\ \E arg \in DieArguments :
           LET made == SimpleDieConstructor(arg)
           IN  /\ die' = [arg |-> arg, die |-> made.die]
               /\ pc' = IF made.thrown THEN "dieThrown" ELSE "dieMade"
               /\ error' = IF made.thrown THEN "SyntaxError" ELSE error
    /\ UNCHANGED <<policy, count, compare, isArray, roll, result, index, output, outKind,
                   cmpCall, probes, calls, prev, search>>

\* new KeepLastCombiner(count)
ConstructKeepLast ==
    /\ pc = "idle"
    /\ policy' = "KeepLast"
    /\ \E arg \in CountArgs :
           IF checkIntegerThrows(arg)
           THEN /\ pc' = "ctorThrown"
                /\ error' = "SyntaxError"
                /\ UNCHANGED count
           ELSE /\ pc' = "ready"
                /\ count' = checkInteger(arg)
                /\ UNCHANGED error
    /\ UNCHANGED <<compare, isArray, roll, result, index, output, outKind, cmpCall, probes,
                   calls, prev, die, search>>

\* new KeepBestCombiner(count = 1, compare), new KeepWorstCombiner(count = 1, compare)
ConstructKeep(p) ==
    /\ pc = "idle"
    /\ policy' = p
    /\ \E fn \in CompareFns :
           compare' = IF p = "KeepBest" THEN KeepBestCompare(fn) ELSE KeepWorstCompare(fn)
    /\ \E arg \in CountArgs :
           LET given == IF arg.type = "undefined" THEN NumberArg(1) ELSE arg
           IN  IF checkIntegerThrows(given)
               THEN /\ pc' = "ctorThrown"
                    /\ error' = "SyntaxError"
                    /\ UNCHANGED count
               ELSE /\ pc' = "ready"
                    /\ count' = checkInteger(given)
                    /\ UNCHANGED error
    /\ UNCHANGED <<isArray, roll, result, index, output, outKind, cmpCall, probes, calls,
                   prev, die, search>>

\* The body of combine(roll) of the object in policy, compare and count, the
\* reduction of a sorting combiner left to ReduceStep and CombineReturn.
Combine(arg) ==
    /\ isArray' = arg.isArray
    /\ roll' = arg.roll
    /\ probes' = {}
    /\ calls' = 0
    /\ index' = 0
    /\ result' = InitialAccumulator(result)
    /\ CASE policy' = "KeepLast" ->
                IF arg.isArray
                THEN /\ output' = KeepLastCombine(arg.roll, count')
                     /\ outKind' = "array"
                     /\ pc' = "returned"
                     /\ error' = "none"
                ELSE /\ output' = <<>>
                     /\ outKind' = "none"
                     /\ pc' = "rejected"
                     /\ error' = "SyntaxError"
         [] policy' = "KeepNew" ->
                IF KeepNewAccepts(arg.isArray, arg.roll)
                THEN /\ output' = <<KeepNewCombine(arg.roll)>>
                     /\ outKind' = "value"
                     /\ pc' = "returned"
                     /\ error' = "none"
                ELSE /\ output' = <<>>
                     /\ outKind' = "none"
                     /\ pc' = "rejected"
                     /\ error' = "SyntaxError"
         [] OTHER ->
                /\ output' = <<>>
                /\ outKind' = "none"
                /\ IF policy' \in {"SingleBest", "SingleWorst"}
                   THEN IF KeepNewAccepts(arg.isArray, arg.roll)
                        THEN pc' = "reducing" /\ error' = "none"
                        ELSE pc' = "rejected" /\ error' = "SyntaxError"
                   ELSE IF arg.isArray
                        THEN pc' = "reducing" /\ error' = "none"
                        ELSE pc' = "rejected" /\ error' = "SyntaxError"

\* KeepLastCombiner.combine(roll)
CombineKeepLast ==
    /\ pc = "ready"
    /\ policy = "KeepLast"
    /\ UNCHANGED <<policy, count, compare, cmpCall, prev, die, search>>
    /\ \E arg \in Arguments : Combine(arg)

\* KeepBestCombiner.combine(roll), KeepWorstCombiner.combine(roll): roll.reduce
\* starts with the accumulator []
CombineBegin ==
    /\ pc = "ready"
    /\ policy \in {"KeepBest", "KeepWorst"}
    /\ UNCHANGED <<policy, count, compare, cmpCall, prev, die, search>>
    /\ \E arg \in Arguments : Combine(arg)

\* KeepNew.combine(roll)
CombineKeepNew ==
    /\ pc = "idle"
    /\ policy' = "KeepNew"
    /\ UNCHANGED <<count, compare, cmpCall, prev, die, search>>
    /\ \E arg \in Arguments : Combine(arg)

\* KeepBest.combine(roll), KeepWorst.combine(roll) of the singletons, which hand
\* the roll to KeepSingleBestCombiner, KeepSingleWorstCombiner
CombineSingleton(p) ==
    /\ pc = "idle"
    /\ policy' = p
    /\ count' = SingleCount
    /\ compare' = IF p = "SingleBest" THEN KeepBestCompare("DefaultComparison")
                                      ELSE KeepWorstCompare("DefaultComparison")
    /\ UNCHANGED <<cmpCall, prev, die, search>>
    /\ \E arg \in Arguments : Combine(arg)

\* (mutant) roll.reduce calling the callback for the same position again
NextIndex_Same(i) == i

\* the position roll.reduce visits after position i
NextIndex(i) == i + 1

\* (mutant) the callback writing into rolledValues
RolledValuesAfter_Overwritten(rolledValues) ==
    [p \in 1..Len(rolledValues) |-> rolledValues[Len(rolledValues)]]

\* the array rolledValues after a call of the callback, which reads it (the
\* search, roll.length) and splices only its accumulator
RolledValuesAfter(rolledValues) == rolledValues

\* one call of the callback of roll.reduce: the search, the splice of the
\* index at the insertion index, the splice of the excess
ReduceStep ==
    /\ pc = "reducing"
    /\ index < Len(roll)
    /\ \E current \in {At(roll, index)} :
       \E resultIndex \in {indirectBinarySearchWithDuplicates(roll, result, current,
                                                             SearchOptions(result, compare))} :
           IF resultIndex = Undefined
           THEN /\ pc' = "thrown"
                /\ error' = "SyntaxError"
                /\ UNCHANGED <<result, index>>
           ELSE /\ \E at \in {InsertionIndex(resultIndex)} :
                   \E spliced \in {Splice(result, at, 0, <<index>>)} :
                       result' = Truncate(spliced, KeepCount(count))
                /\ index' = NextIndex(index)
                /\ UNCHANGED <<pc, error>>
    /\ probes' = probes \cup ProbesOfStep(roll, result, index, compare)
    /\ calls' = calls + CompareCalls(roll, result, At(roll, index),
                                     SearchOptions(result, compare))
    /\ roll' = RolledValuesAfter(roll)
    /\ UNCHANGED <<policy, count, compare, isArray, output, outKind, cmpCall, prev,
                   die, search>>

\* roll.reduce is through: the indexes are mapped to their values and returned,
\* by the singletons the element [0] of them
CombineReturn ==
    /\ pc = "reducing"
    /\ index = Len(roll)
    /\ IF policy \in {"SingleBest", "SingleWorst"}
       THEN /\ output' = <<Unwrap(MapToValues(result, roll))>>
            /\ outKind' = "value"
       ELSE /\ output' = MapToValues(result, roll)
            /\ outKind' = "array"
    /\ pc' = "returned"
    /\ UNCHANGED <<policy, count, compare, isArray, roll, result, index, error, cmpCall,
                   probes, calls, prev, die, search>>

Outcome == [pc |-> pc, output |-> output, outKind |-> outKind, error |-> error]

\* combine called once more on the same object with the same argument
CombineAgain ==
    /\ pc \in {"returned", "thrown", "rejected"}
    /\ prev = NoOutcome
    /\ prev' = Outcome
    /\ UNCHANGED <<policy, count, compare, cmpCall, die, search>>
    /\ Combine([isArray |-> isArray, roll |-> roll])

Next ==
    \/ CallCompare
    \/ ConstructSimpleDie
    \/ ConstructKeepLast
    \/ ConstructKeep("KeepBest")
    \/ ConstructKeep("KeepWorst")
    \/ CombineKeepLast
    \/ CombineBegin
    \/ CombineKeepNew
    \/ CombineSingleton("SingleBest")
    \/ CombineSingleton("SingleWorst")
    \/ ReduceStep
    \/ CombineReturn

Spec == Init /\ [][Next]_vars

\* combine runs to its end without interruption: roll.reduce goes on calling
\* the callback, and the method returns once the reduction is through
Fairness == WF_vars(ReduceStep) /\ WF_vars(CombineReturn)
SpecLive == Spec /\ Fairness

\* the callers that call combine a second time
NextTwice == Next \/ CombineAgain
SpecTwice == Init /\ [][NextTwice]_vars

\* the callers of the search
NextSearch == CallSearch
SpecSearch == Init /\ [][NextSearch]_vars

\* the callers of the search that allows duplicates
NextDuplicates == CallSearchWithDuplicates
SpecDuplicates == Init /\ [][NextDuplicates]_vars

-----------------------------------------------------------------------------
(* Vocabulary of the properties *)

RECURSIVE SeqRange(_)
SeqRange(s) == IF s = <<>> THEN {} ELSE {s[1]} \cup SeqRange(Tail(s))

\* the function the caller handed to the constructor, operands as the caller writes them
UserCompare(a, b) == Call(compare.fn, a, b)

Sorting == policy \in {"KeepBest", "KeepWorst"}

\* fn is defined on every pair of values of r
MutuallyComparable(fn, r) ==
    \A a \in SeqRange(r), b \in SeqRange(r) : Call(fn, a, b) # Undefined

\* compare(a, b) is the sign-opposite of compare(b, a), undefined symmetrically
Antisymmetric(fn, r) ==
    \A a \in SeqRange(r), b \in SeqRange(r) :
        IF Call(fn, a, b) = Undefined THEN Call(fn, b, a) = Undefined
        ELSE /\ Call(fn, b, a) # Undefined
             /\ Sign(Call(fn, a, b)) = -Sign(Call(fn, b, a))

\* fn orders the values of r totally (ties allowed)
TotallyOrdered(fn, r) ==
    /\ MutuallyComparable(fn, r)
    /\ Antisymmetric(fn, r)
    /\ \A a \in SeqRange(r), b \in SeqRange(r), c \in SeqRange(r) :
           (Call(fn, a, b) <= 0 /\ Call(fn, b, c) <= 0) => Call(fn, a, c) <= 0

Occurrences(s, v) == Cardinality({p \in 1..Len(s) : s[p] = v})

\* kept holds, as a multiset, the values of r at a set K of k positions, and no
\* value outside K ranks above (dir = 1) or below (dir = -1) a value of K
IsExtreme(kept, r, k, fn, dir) ==
    \E K \in SUBSET (1..Len(r)) :
        /\ Cardinality(K) = k
        /\ Len(kept) = k
        /\ \A v \in SeqRange(r) \cup SeqRange(kept) :
               Occurrences(kept, v) = Cardinality({p \in K : r[p] = v})
        /\ \A p \in K, q \in (1..Len(r)) \ K : dir * Call(fn, r[q], r[p]) <= 0

Ascending(s, fn) == \A p \in 1..Len(s), q \in 1..Len(s) : p < q => Call(fn, s[p], s[q]) <= 0

\* the final n elements of r (all of r when n exceeds its length)
FinalElements(r, n) == SubSeq(r, Len(r) - Min(n, Len(r)) + 1, Len(r))

-----------------------------------------------------------------------------
(* C1-C5 *)

\* C1: for every count >= 0 and every roll totally ordered by compare,
\* KeepBestCombiner(count, compare).combine(roll) returns exactly the
\* min(count, len(roll)) largest values of the roll under compare, as a multiset.
C1_KeepBestKeepsLargest ==
    (policy = "KeepBest" /\ pc \in {"returned", "thrown"} /\ count >= 0
        /\ TotallyOrdered(compare.fn, roll))
    => /\ pc = "returned"
       /\ IsExtreme(output, roll, Min(count, Len(roll)), compare.fn, 1)

\* C2: for every count >= 0 and every roll totally ordered by compare,
\* KeepWorstCombiner(count, compare).combine(roll) returns the
\* min(count, len(roll)) smallest values of the roll under compare, in ascending order.
C2_KeepWorstKeepsSmallestAscending ==
    (policy = "KeepWorst" /\ pc \in {"returned", "thrown"} /\ count >= 0
        /\ TotallyOrdered(compare.fn, roll))
    => /\ pc = "returned"
       /\ IsExtreme(output, roll, Min(count, Len(roll)), compare.fn, -1)
       /\ Ascending(output, compare.fn)

\* C3: for every integer n >= 0, KeepLastCombiner(n).combine(roll) equals the
\* final n elements of roll in their original order, and the whole roll when
\* n exceeds its length.
C3_KeepLastKeepsFinalElements ==
    (policy = "KeepLast" /\ pc = "returned" /\ count >= 0)
    => output = FinalElements(roll, count)

\* C4: for every non-negative count and every roll of mutually comparable
\* values, KeepBestCombiner/KeepWorstCombiner.combine returns a sequence of
\* exactly min(count, len(roll)) elements: the sorted indexes never number more
\* than count when the reduction is through, and an empty roll gives an empty result.
C4_KeptLength ==
    (Sorting /\ count >= 0 /\ MutuallyComparable(compare.fn, roll))
    => /\ pc # "thrown"
       /\ pc = "returned" =>
              /\ Len(output) = Min(count, Len(roll))
              /\ Len(result) <= count
              /\ (roll = <<>> => output = <<>>)

C4_Witness ==
    /\ pc = "returned" /\ policy = "KeepBest" /\ count = 2
    /\ compare.fn = "Numeric" /\ Len(roll) = 3 /\ Len(output) = 2

\* C5: stability of KeepBest/KeepWorst: in the returned sequence, two kept
\* entries that compare Equal appear in the order of their positions in the roll.
C5_Stable ==
    (Sorting /\ pc = "returned")
    => /\ Len(output) = Len(result)
       /\ \A p \in 1..Len(result), q \in 1..Len(result) :
              (p < q /\ Apply(compare, output[p], output[q]) = 0) => result[p] < result[q]

C5_Witness ==
    /\ pc = "returned" /\ policy = "KeepBest" /\ count = 2 /\ compare.fn = "Bucket"
    /\ Len(result) = 2 /\ output[1] # output[2]
    /\ UserCompare(output[1], output[2]) = 0
    /\ \E p \in 1..Len(roll) : p - 1 \notin SeqRange(result)

-----------------------------------------------------------------------------
(* C6-C10 *)

\* two positions of r whose values this.compare cannot compare, in one order or the other
HasIncomparablePair(cmp, r) ==
    \E p \in 1..Len(r), q \in 1..Len(r) :
        p # q /\ Apply(cmp, r[p], r[q]) = Undefined

\* a comparison a positional search of this combine made came out undefined
ProbedIncomparable ==
    \E pr \in probes : Apply(compare, At(roll, pr.elem), At(roll, pr.seek)) = Undefined

C7_NoInvalidCount ==
    (Sorting /\ pc # "ctorThrown") => (count # Undefined /\ count >= 0)

\* C8: DefaultComparison(x, y) is 0 when x === y, negative when x < y,
\* positive when x > y, and undefined only when none of these is defined
\* (a number against a string).
C8_DefaultComparisonNaturalOrder ==
    (pc = "compared" /\ cmpCall.fn = "DefaultComparison")
    => LET a == cmpCall.a
           b == cmpCall.b
           r == cmpCall.r
       IN  /\ a = b => r = 0
           /\ (TypeOf(a) = TypeOf(b) /\ a < b) => Lt0(r)
           /\ (TypeOf(a) = TypeOf(b) /\ a > b) => Gt0(r)
           /\ r = Undefined => TypeOf(a) # TypeOf(b)

\* C9: HexDigitComparison orders hex digits by kind first and then naturally:
\* Less for (digit, letter), Greater for (letter, digit), the natural-order
\* result within a kind; and KeepBest(1) over [3,5,"F",2,"A",0] under it returns ["F"].
C9_HexDigitComparisonOrder ==
    /\ (pc = "compared" /\ cmpCall.fn = "HexDigitComparison")
       => LET a == cmpCall.a
              b == cmpCall.b
              r == cmpCall.r
          IN  /\ (TypeOf(a) = "number" /\ TypeOf(b) = "string") => Lt0(r)
              /\ (TypeOf(a) = "string" /\ TypeOf(b) = "number") => Gt0(r)
              /\ TypeOf(a) = TypeOf(b) => r = Sign(a - b)
    /\ (pc \in {"returned", "thrown"} /\ policy = "KeepBest" /\ count = 1
           /\ compare.fn = "HexDigitComparison" /\ roll = <<3, 5, LetterF, 2, LetterA, 0>>)
       => (pc = "returned" /\ output = <<LetterF>>)

\* the reduce of the test of KeepBestCombiner: the running value r gives way
\* to the next value v when compare(r, v) > 0, and undefined once a comparison is
RECURSIVE FoldFrom(_, _, _, _)
FoldFrom(fn, r, running, p) ==
    IF p > Len(r) THEN running
    ELSE IF running = Undefined THEN Undefined
    ELSE LET c == Call(fn, running, r[p])
         IN  IF c = Undefined THEN Undefined
             ELSE IF c > 0 THEN FoldFrom(fn, r, r[p], p + 1)
             ELSE FoldFrom(fn, r, running, p + 1)

ExpectedOfTest(fn, r) == FoldFrom(fn, r, r[1], 2)

-----------------------------------------------------------------------------
(* Two calls of combine in succession *)

Finished == pc \in {"returned", "thrown", "rejected"}

\* C11: when combine is called twice in succession with the same argument on
\* the same policy object (KeepBestCombiner, KeepWorstCombiner,
\* KeepLastCombiner, KeepNew, the singletons), the second call ends as the
\* first did: it returns the same values in the same form, or throws the same
\* error from the same place.
C11_SecondCallSameOutcome ==
    (prev # NoOutcome /\ Finished) => Outcome = prev

C11_Witness ==
    /\ prev # NoOutcome /\ pc = "returned"
    /\ policy = "KeepBest" /\ compare.fn = "Numeric"
    /\ count = 3 /\ roll = <<1, 0>>
    /\ Len(output) = 2 /\ output = prev.output

-----------------------------------------------------------------------------
(* The whole roll kept, and the two sorting combiners side by side *)

\* s holds every value as often as r does
Permutation(s, r) ==
    /\ Len(s) = Len(r)
    /\ \A v \in SeqRange(r) \cup SeqRange(s) : Occurrences(s, v) = Occurrences(r, v)

Descending(s, fn) == \A p \in 1..Len(s), q \in 1..Len(s) : p < q => Call(fn, s[p], s[q]) >= 0

Reverse(s) == [p \in 1..Len(s) |-> s[Len(s) + 1 - p]]

\* C12: when count >= len(roll) and compare orders the roll's values
\* totally, KeepBestCombiner and KeepWorstCombiner return a permutation of
\* the roll, KeepBest's non-increasing under compare (best first) and
\* KeepWorst's non-decreasing under compare (worst first).
C12_FullRollBestFirstWorstFirst ==
    (Sorting /\ pc \in {"returned", "thrown"} /\ compare.fn \in CallerFns
        /\ count >= Len(roll) /\ TotallyOrdered(compare.fn, roll))
    => /\ pc = "returned"
       /\ Permutation(output, roll)
       /\ policy = "KeepBest" => Descending(output, compare.fn)
       /\ policy = "KeepWorst" => Ascending(output, compare.fn)

\* some k positions of r hold values that all rank strictly below the others:
\* no run of equal values lies on both sides of the boundary k
NoTieSplit(fn, r, k) ==
    \E K \in SUBSET (1..Len(r)) :
        /\ Cardinality(K) = k
        /\ \A p \in K, q \in (1..Len(r)) \ K : Call(fn, r[p], r[q]) < 0

\* C13: for every roll that compare orders totally and every k in
\* 0..len(roll) that splits no run of equal values,
\* KeepWorstCombiner(k, compare).combine(roll) followed by the reverse of
\* KeepBestCombiner(len(roll) - k, compare).combine(roll) is the roll sorted
\* in ascending order under compare.
C13_PartitionReconstructsSortedRoll ==
    (policy = "KeepWorst" /\ pc \in {"returned", "thrown"} /\ compare.fn \in CallerFns
        /\ count \in 0..Len(roll) /\ TotallyOrdered(compare.fn, roll)
        /\ NoTieSplit(compare.fn, roll, count))
    => LET best == KeepCombine(roll, KeepBestCompare(compare.fn), Len(roll) - count)
           whole == output \o Reverse(best.value)
       IN  /\ pc = "returned"
           /\ best.pc = "returned"
           /\ Permutation(whole, roll)
           /\ Ascending(whole, compare.fn)

-----------------------------------------------------------------------------
(* count = 0 *)

\* C14: with count = 0, KeepBestCombiner.combine and
\* KeepWorstCombiner.combine never call the comparator, whatever the roll
\* and the comparator: every search runs on an empty index set, the callback
\* never throws, and combine returns the empty array.
C14_CountZeroComparesNothing ==
    (Sorting /\ count = 0 /\ pc \in {"reducing", "returned", "thrown"})
    => /\ pc # "thrown"
       /\ calls = 0
       /\ probes = {}
       /\ result = <<>>
       /\ pc = "returned" => (output = <<>> /\ outKind = "array")

C14_Witness ==
    /\ policy = "KeepBest" /\ count = 0 /\ pc = "returned"
    /\ compare.fn = "DefaultComparison"
    /\ roll = <<0, LetterA, 1>>
    /\ output = <<>> /\ calls = 0

-----------------------------------------------------------------------------
(* KeepNew and the singletons *)

\* C15: for every non-empty roll, KeepNew.combine(roll) returns the last
\* element of the roll as one value, not in an array, and
\* KeepLastCombiner(1).combine(roll) is the array [KeepNew.combine(roll)].
C15_KeepNewIsKeepLastOne ==
    /\ (policy = "KeepNew" /\ isArray /\ roll # <<>> /\ Finished)
           => /\ pc = "returned"
              /\ outKind = "value"
              /\ output = <<roll[Len(roll)]>>
    /\ (policy = "KeepLast" /\ count = 1 /\ isArray /\ roll # <<>> /\ Finished)
           => /\ pc = "returned"
              /\ outKind = "array"
              /\ output = <<KeepNewCombine(roll)>>

\* the combiner a singleton hands the roll to
SingleCompare == IF policy = "SingleBest" THEN KeepBestCompare("DefaultComparison")
                                          ELSE KeepWorstCompare("DefaultComparison")

\* C16: for every non-empty roll, the singletons KeepBest and KeepWorst
\* return the one element of what KeepBestCombiner(1).combine(roll),
\* KeepWorstCombiner(1).combine(roll) return, as one value, and throw
\* SyntaxError exactly when that combine throws.
C16_SingletonsUnwrapCountOne ==
    /\ (policy \in {"SingleBest", "SingleWorst"} /\ isArray /\ roll # <<>> /\ Finished)
           => LET delegated == KeepCombine(roll, SingleCompare, 1)
              IN  IF delegated.pc = "returned"
                  THEN /\ pc = "returned"
                       /\ outKind = "value"
                       /\ Len(delegated.value) = 1
                       /\ output = <<delegated.value[1]>>
                  ELSE /\ pc = "thrown"
                       /\ error = "SyntaxError"
    /\ (Sorting /\ count = 1 /\ isArray /\ roll # <<>> /\ Finished)
           => LET own == KeepCombine(roll, compare, count)
              IN  /\ pc = own.pc
                  /\ pc = "returned" => (outKind = "array" /\ output = own.value)

C16_Witness ==
    /\ policy = "SingleWorst" /\ pc = "returned"
    /\ roll = <<LetterA>>
    /\ outKind = "value" /\ output = <<LetterA>>

-----------------------------------------------------------------------------
(* Arguments combine rejects *)

\* C17: combine of every policy (KeepLastCombiner, KeepBestCombiner,
\* KeepWorstCombiner, KeepNew, the singletons KeepBest and KeepWorst) throws
\* SyntaxError when its argument is no array, and KeepNew and the singletons
\* throw it for the empty array too; the call returns nothing.
C17_InvalidArgumentThrows ==
    /\ ~isArray
           => /\ pc = "rejected"
              /\ error = "SyntaxError"
              /\ outKind = "none" /\ output = <<>>
    /\ (policy \in {"KeepNew", "SingleBest", "SingleWorst"} /\ roll = <<>>)
           => /\ pc = "rejected"
              /\ error = "SyntaxError"
              /\ outKind = "none" /\ output = <<>>

C17_Witness ==
    /\ policy = "SingleBest" /\ isArray /\ roll = <<>>
    /\ pc = "rejected" /\ error = "SyntaxError"

-----------------------------------------------------------------------------
(* SimpleDie *)

\* C18: new SimpleDie() with no argument does not throw and makes the
\* default die: sides is [1, 2, 3, 4, 5, 6] and sideCount is 6.
C18_DefaultDieHasSixSides ==
    (die.arg.kind = "undefined" /\ pc \in {"dieMade", "dieThrown"})
    => /\ pc = "dieMade"
       /\ die.die.sides = createDieSides(DefaultSideCount)
       /\ die.die.sideCount = DefaultSideCount

-----------------------------------------------------------------------------
(* The sorted index set and the positional search *)

\* the values the index set refers to are non-decreasing under cmp
NonDecreasing(source, sortedIndexes, cmp) ==
    \A p \in 1..Len(sortedIndexes), q \in 1..Len(sortedIndexes) :
        p < q => Apply(cmp, At(source, sortedIndexes[p]), At(source, sortedIndexes[q])) <= 0

\* C19: during combine of KeepBestCombiner and KeepWorstCombiner over
\* values that compare orders totally, after every step of the reduction
\* the values roll[result[0]], roll[result[1]], ... are non-decreasing under
\* this.compare, the comparator the combiner hands to the search.
C19_IndexSetNonDecreasing ==
    (Sorting /\ pc \in {"reducing", "returned"} /\ compare.fn \in CallerFns
        /\ count >= 0 /\ TotallyOrdered(compare.fn, roll))
    => NonDecreasing(roll, result, compare)

\* the value the p-th entry (0-based) of the searched index set refers to
Referenced(p) == At(search.source, At(search.sortedIndexes, p))

SearchedPositions == 0..(Len(search.sortedIndexes) - 1)

\* C20: for every source, every index set whose referenced values are
\* non-decreasing under compare, and every seeked value comparable with all
\* of them, indirectBinarySearch returns p >= 0 only when
\* compare(source[sortedIndexes[p]], seeked) = 0, returns some p >= 0 whenever
\* a referenced value equals seeked, and otherwise returns -1 - q with q an
\* offset at which seeked can be inserted with the set staying sorted.
C20_SearchFindsOrGivesInsertionPoint ==
    (pc = "searched" /\ search.fn \in CallerFns
        /\ \A p \in SearchedPositions :
               /\ Call(search.fn, Referenced(p), search.seeked) # Undefined
               /\ Call(search.fn, search.seeked, Referenced(p)) # Undefined
               /\ \A q \in SearchedPositions :
                      Call(search.fn, Referenced(p), Referenced(q)) # Undefined
        /\ NonDecreasing(search.source, search.sortedIndexes,
                         [fn |-> search.fn, swap |-> FALSE]))
    => LET r == search.value
           q == -1 - r
       IN  /\ r # Undefined /\ r # RangeError
           /\ r >= 0 => (r \in SearchedPositions
                            /\ Call(search.fn, Referenced(r), search.seeked) = 0)
           /\ (\E p \in SearchedPositions :
                   Call(search.fn, Referenced(p), search.seeked) = 0) => r >= 0
           /\ r < 0 => /\ q \in 0..Len(search.sortedIndexes)
                       /\ \A p \in SearchedPositions :
                              IF p < q
                              THEN Call(search.fn, Referenced(p), search.seeked) <= 0
                              ELSE Call(search.fn, Referenced(p), search.seeked) >= 0

-----------------------------------------------------------------------------
(* The search that allows duplicates *)

SearchCompare == [fn |-> search.fn, swap |-> FALSE]

\* compare is defined on the seeked value and every referenced value, both
\* ways, and on every two referenced values
SearchComparable ==
    \A p \in SearchedPositions :
        /\ Call(search.fn, Referenced(p), search.seeked) # Undefined
        /\ Call(search.fn, search.seeked, Referenced(p)) # Undefined
        /\ \A q \in SearchedPositions : Call(search.fn, Referenced(p), Referenced(q)) # Undefined

NonIncreasing(source, sortedIndexes, cmp) ==
    \A p \in 1..Len(sortedIndexes), q \in 1..Len(sortedIndexes) :
        p < q => Apply(cmp, At(source, sortedIndexes[p]), At(source, sortedIndexes[q])) >= 0

\* the searched set is sorted, in the one direction or the other
SearchedSorted ==
    \/ NonDecreasing(search.source, search.sortedIndexes, SearchCompare)
    \/ NonIncreasing(search.source, search.sortedIndexes, SearchCompare)

\* C21: when the seeked value is not in a sorted set of values comparable
\* with it, indirectBinarySearchWithDuplicates returns, for every value of
\* returnFirstPosition (true, false, unset), the negative insertion marker
\* its call of indirectBinarySearch returned, unchanged.
C21_AbsentValueKeepsMarker ==
    (pc = "resolved" /\ search.fn \in CallerFns /\ SearchComparable /\ SearchedSorted
        /\ search.base < 0 /\ search.base >= -1 - Len(search.sortedIndexes))
    => search.value = search.base

\* the entries at the positions from..to all equal, under compare, the entry the
\* search has found
EqualRun(from, to) ==
    \A p \in from..to : Call(search.fn, Referenced(p), Referenced(search.base)) = 0

\* C22: when indirectBinarySearch has found the seeked value,
\* indirectBinarySearchWithDuplicates returns the first position of the
\* contiguous run of equal entries around the match when returnFirstPosition
\* is true, and the last position of that run when it is false or unset;
\* the entry at the returned position equals the seeked value.
C22_PresentValueResolvesToRunEnd ==
    (pc = "resolved" /\ search.base >= 0)
    => LET found == search.value
           last == Len(search.sortedIndexes) - 1
       IN  /\ found \in SearchedPositions
           /\ Call(search.fn, Referenced(found), search.seeked) = 0
           /\ IF search.flag = "true"
              THEN /\ found <= search.base
                   /\ EqualRun(found, search.base)
                   /\ found > 0 =>
                          Call(search.fn, Referenced(found - 1), Referenced(search.base)) # 0
              ELSE /\ found >= search.base
                   /\ EqualRun(search.base, found)
                   /\ found < last =>
                          Call(search.fn, Referenced(found + 1), Referenced(search.base)) # 0

C22_Witness ==
    /\ pc = "resolved" /\ search.fn = "Bucket" /\ search.flag = "true"
    /\ search.source = <<1, 0, 1>> /\ search.sortedIndexes = <<2, 0, 1>>
    /\ search.seeked = 0
    /\ search.base = 1 /\ search.value = 0

-----------------------------------------------------------------------------
(* The abort signal *)

\* the search the callback of roll.reduce is about to make for roll[index]
StepSearch == indirectBinarySearch(roll, result, At(roll, index), 0, Len(result), compare)

\* some comparison on the path of that search is undefined
StepProbeUndefined ==
    LET cursors == ProbedCursors(roll, result, At(roll, index), compare)
    IN  \E k \in 1..Len(cursors) :
            Apply(compare, At(roll, At(result, cursors[k])), At(roll, index)) = Undefined

\* C23: indirectBinarySearch returns undefined exactly when a comparison on
\* its search path returned undefined, and KeepBestCombiner.combine,
\* KeepWorstCombiner.combine and the singletons then throw SyntaxError: the
\* index of the value is not inserted and nothing is returned; a combine
\* that goes on or returns has met no undefined comparison on a search path.
C23_UndefinedComparisonAborts ==
    /\ (pc \in {"reducing", "thrown"} /\ index < Len(roll))
           => /\ (StepSearch = Undefined) <=> StepProbeUndefined
              /\ (pc = "thrown") => StepSearch = Undefined
    /\ pc = "thrown"
           => /\ index < Len(roll)
              /\ error = "SyntaxError"
              /\ \A p \in 1..Len(result) : result[p] # index
              /\ outKind = "none" /\ output = <<>>
    /\ pc \in {"reducing", "returned"} => ~ProbedIncomparable

C23_Witness ==
    /\ pc = "thrown" /\ policy = "KeepWorst" /\ compare.fn = "SameKindOnly"
    /\ count = 2 /\ roll = <<0, 1, LetterA>> /\ index = 2
    /\ result = <<1, 0>>
    /\ StepSearch = Undefined

-----------------------------------------------------------------------------
(* The index set during the reduction *)

Reducing == policy \in {"KeepBest", "KeepWorst", "SingleBest", "SingleWorst"}
                /\ pc \in {"reducing", "returned", "thrown"}

\* C24: at every step of combine of KeepBestCombiner and KeepWorstCombiner
\* (the singletons' combiners included, and in a second call as in the
\* first), every entry of the accumulator is an integer in 0..len(roll)-1
\* that roll.reduce has visited already, and no entry occurs twice.
C24_IndexesValidAndUnique ==
    Reducing
    => /\ \A p \in 1..Len(result) :
              /\ result[p] \in 0..(Len(roll) - 1)
              /\ result[p] < index
       /\ \A p \in 1..Len(result), q \in 1..Len(result) : p # q => result[p] # result[q]

C24_Witness ==
    /\ pc = "reducing" /\ policy = "KeepBest" /\ compare.fn = "Bucket"
    /\ count = 3 /\ roll = <<1, 0, 1, 0>> /\ index = 4
    /\ Len(result) = 3

-----------------------------------------------------------------------------
(* KeepBest and KeepWorst side by side *)

\* the comparator c a caller hands to a constructor, and c'(a, b) = c(b, a)
CallerCompare(fn) == [fn |-> fn, swap |-> FALSE]
Exchanged(c) == [fn |-> c.fn, swap |-> ~c.swap]

\* this.compare of KeepBestCombiner and KeepWorstCombiner built with the comparator c
KeepBestInternal(c) == Exchanged(c)
KeepWorstInternal(c) == c

\* C25: for every count, roll and comparator c,
\* KeepBestCombiner(count, c).combine(roll) ends as
\* KeepWorstCombiner(count, c').combine(roll) with c'(a, b) = c(b, a) does,
\* and KeepWorstCombiner(count, c) as KeepBestCombiner(count, c'): the same
\* array, or SyntaxError from both.
C25_OrientationDuality ==
    (Sorting /\ pc \in {"returned", "thrown"})
    => LET other == Exchanged(CallerCompare(compare.fn))
           dual == IF policy = "KeepBest"
                   THEN KeepCombine(roll, KeepWorstInternal(other), count)
                   ELSE KeepCombine(roll, KeepBestInternal(other), count)
       IN  /\ pc = dual.pc
           /\ pc = "returned" => (outKind = "array" /\ output = dual.value)

C25_Witness ==
    /\ policy = "KeepBest" /\ pc = "returned" /\ compare.fn = "Numeric"
    /\ count = 2 /\ roll = <<1, 0, LetterA>>
    /\ output = KeepCombine(roll, [fn |-> "Numeric", swap |-> TRUE], 2).value
    /\ Len(output) = 2

-----------------------------------------------------------------------------
(* Frame *)

-----------------------------------------------------------------------------
(* Termination *)

\* the cursors one search of a step probes, in the order of the probes
StepCursors ==
    ProbedCursors(roll, result, At(roll, index), compare)

\* C27: every combine of KeepBestCombiner and KeepWorstCombiner (and of the
\* singletons' combiners) that has begun its reduction eventually returns
\* or throws, for every roll, count and comparator; the search of a step
\* probes no cursor twice and no more cursors than the set has entries, and
\* the position of the pass only grows and never passes the end of the roll.
C27_CombineTerminates ==
    /\ (pc = "reducing") ~> (pc \in {"returned", "thrown"})
    /\ [](pc = "reducing" /\ index < Len(roll)
            => /\ Len(StepCursors) <= Len(result)
               /\ \A j, k \in 1..Len(StepCursors) :
                      j # k => StepCursors[j] # StepCursors[k])
    /\ [][pc = "reducing" /\ pc' = "reducing" => index' = index + 1 /\ index' <= Len(roll)]_vars

C27_Witness ==
    /\ pc = "returned" /\ policy = "KeepWorst" /\ compare.fn = "NeverEqual"
    /\ count = 3 /\ Len(roll) = 4 /\ index = 4

-----------------------------------------------------------------------------
(* Ties at the cut *)

\* the set holds count >= 1 entries and the value roll.reduce visits next
\* compares equal, by the combiner's comparator, to the value of the entry
\* at the last position of the set
TieAtTheCut ==
    /\ pc = "reducing"
    /\ index < Len(roll)
    /\ count >= 1
    /\ Len(result) = count
    /\ Apply(compare, At(roll, At(result, Len(result) - 1)), At(roll, index)) = 0

\* C28: when the set holds count >= 1 entries and the next rolled value
\* compares equal to the entry at the last position of the set, the step
\* leaves the set as it was and the pass goes on.
C28_TieAtTheCutIsDropped ==
    [][TieAtTheCut => (result' = result /\ pc' = "reducing")]_vars

C28_Witness ==
    /\ pc = "reducing" /\ policy = "KeepBest" /\ compare.fn = "Numeric"
    /\ count = 1 /\ roll = <<1, 1, 0>> /\ index = 2 /\ result = <<0>>

-----------------------------------------------------------------------------
(* Monotone threshold *)

\* the value of the roll the entry at the last position of the set res refers to
LastValue(res) == At(roll, At(res, Len(res) - 1))

\* in the set's own order (non-increasing under the combiner's comparator,
\* the order the search keeps), the value a is not behind the value b
NotBehind(a, b) == Apply(compare, a, b) >= 0

\* C29: in a combine of KeepBestCombiner or KeepWorstCombiner with count >= 1
\* over values the comparator orders totally, a step of the pass from a set
\* of count entries leaves a set of count entries, an index visited before
\* and not in the set is not in the set after the step, and the value at
\* the last position after a step from a full set is not behind the value
\* that was at the last position before it.
C29_MonotoneThreshold ==
    [][(/\ pc = "reducing"
        /\ index < Len(roll)
        /\ count >= 1
        /\ TotallyOrdered(compare.fn, roll))
       => /\ pc' = "reducing"
          /\ Len(result) = count
               => /\ Len(result') = count
                  /\ NotBehind(At(roll, At(result', Len(result') - 1)), LastValue(result))
          /\ \A i \in 0..(index - 1) :
                 i \notin SeqRange(result) => i \notin SeqRange(result')]_vars

C29_Witness ==
    /\ pc = "reducing" /\ policy = "KeepWorst" /\ compare.fn = "Numeric"
    /\ count = 2 /\ roll = <<0, 1, LetterA, 1>> /\ index = 3 /\ result = <<2, 1>>

-----------------------------------------------------------------------------
(* Negative count *)

\* C30: a KeepBestCombiner or KeepWorstCombiner that holds a negative count
\* has an empty set after every step of combine, calls the comparator never
\* and never throws for incomparable values, and returns the empty sequence
\* for every roll.
C30_NegativeCountKeepsNothing ==
    (Sorting /\ count < 0
        /\ pc \in {"reducing", "returned", "thrown"})
    => /\ pc # "thrown"
       /\ result = <<>>
       /\ calls = 0
       /\ probes = {}
       /\ pc = "returned" => (output = <<>> /\ outKind = "array")

C30_Witness ==
    /\ pc = "returned" /\ policy = "KeepBest" /\ compare.fn = "DefaultComparison"
    /\ count = -2 /\ roll = <<1, LetterA, 0>> /\ output = <<>>

====
